---- MODULE Spec2Model ----
(***************************************************************************)
(* Treasury wallet ledger (server/treasuryWalletService.ts).               *)
(*                                                                         *)
(* The database holds two tables, treasuryWallets and                      *)
(* treasuryWalletTransactions.  Every exported function of the service is  *)
(* an async function: it runs from one `await db...` to the next without   *)
(* interruption, and other calls may run between two of its awaits.  A     *)
(* call is therefore modelled as a process that moves through the awaits   *)
(* of its function, one action per database statement together with the    *)
(* synchronous code that follows it.                                       *)
(*                                                                         *)
(* Money is counted in whole units; Decimal plus/minus/lessThan are exact  *)
(* on them.  description, relatedChallengeId, relatedMatchId and updatedAt *)
(* are stored as given and read by no code of the service; they are left   *)
(* out of the rows.  A database statement that fails for a   *)
(* reason outside the service (a lost connection) is not modelled.         *)
(*                                                                         *)
(* The table definitions (shared/schema) are not among the sources.  Spec  *)
(* takes treasuryWallets to refuse a second row for an admin; SpecAsWritten *)
(* is the service with nothing but its own code, where no insert is         *)
(* refused.                                                                 *)
(*                                                                         *)
(* The admin panel (client/src/components/TreasuryWalletPanel.tsx) is a    *)
(* second, separate state machine, SpecPanel: the deposit dialog's state   *)
(* and the deposit-initiation requests it sends.  What the server does     *)
(* with such a request is not part of the sources modelled here, so the     *)
(* panel and the ledger do not act on each other.                           *)
(***************************************************************************)
EXTENDS Integers, Sequences, FiniteSets, TLC

\* ---------------------------------------------------------------- bounds
MaxCalls == 3      \* calls started in one behaviour
MaxAmount == 1     \* largest amount passed to deposit / debit / credit
MaxClock == 1      \* latest createdAt tick
MaxLimit == 1      \* largest explicit limit of a history query
MaxRequests == 2   \* deposit-initiation requests sent by the panel
MaxAlerts == 2     \* alerts shown by the panel

DefaultLimit == 50

Procs == {"p1", "p2"}
Admins == {"a1", "a2"}
Amounts == (0 - 1)..MaxAmount
Limits == (1..MaxLimit) \cup {DefaultLimit}
Mutating == {"deposit", "debit", "credit"}
References == {"ref1", "ref2"}   \* paystackReference values
NoReference == "null"            \* the reference column of a row that sets none

VARIABLES
    treasuryWallets,             \* table: sequence of wallet rows, in insertion order
    treasuryWalletTransactions,  \* table: sequence of transaction rows, in insertion order
    pc,          \* pc[p]: the await the call of process p is at, "idle" between calls
    call,        \* call[p]: function and arguments of p's current (or last) call
    wallet,      \* wallet[p]: the local `wallet` / `existing` of p's call: <<>> is null
    ret,         \* ret[p]: outcome of p's last call
    pre,         \* history: the admin's wallet rows when p's call started
    post,        \* history: the admin's wallet rows when p's call ended
    logAt,       \* history: number of transaction rows when p's call started
    solo,        \* history: no other call for the same admin ran during p's call
    overlapped,  \* history: overlapped[a]: two calls for admin a have run at once
    calls,       \* number of calls started
    uniqueAdminId,  \* the table treasuryWallets refuses a second row for an admin
    depositAmount,  \* panel: the text of the amount field, a sequence of characters
    isProcessing,   \* panel: the isProcessing state
    inFlight,       \* panel: initiateDepositMutation is pending
    requests,       \* panel: amounts of the deposit-initiation requests sent
    alerts,         \* panel: number of alerts shown
    location,       \* panel: window.location.href: "panel", or "paystack" once assigned
    mounted         \* panel: the document of the panel is still the one loaded

ledgerVars == <<treasuryWallets, treasuryWalletTransactions, pc, call, wallet, ret,
                pre, post, logAt, solo, overlapped, calls, uniqueAdminId>>
panelVars == <<depositAmount, isProcessing, inFlight, requests, alerts, location,
               mounted>>
vars == <<ledgerVars, panelVars>>

\* ------------------------------------------------------------ decimal.js
DecimalPlus(x, y) == x + y
DecimalMinus(x, y) == x - y
DecimalLessThan(x, y) == x < y

\* ---------------------------------------------------------------- tables
\* select().from(treasuryWallets).where(eq(adminId)): the matching rows.
WalletsOf(tbl, adminId) == SelectSeq(tbl, LAMBDA w : w.adminId = adminId)

\* .limit(1) without ORDER BY: any one of the matching rows, or none.
\* wallet.length > 0 ? wallet[0] : null
SelectOne(tbl, adminId) ==
    IF WalletsOf(tbl, adminId) = <<>>
    THEN {<<>>}
    ELSE {<<WalletsOf(tbl, adminId)[i]>> : i \in 1..Len(WalletsOf(tbl, adminId))}

\* status is not among the values of the insert: the column's default applies.
DefaultStatus == "default"

\* (variant: the new wallet starts with a balance)
NewWallet_funded(adminId) ==
    [adminId |-> adminId, balance |-> 1, totalDeposited |-> 0,
     totalUsed |-> 0, totalEarned |-> 0, status |-> DefaultStatus]
\* The row createOrGetTreasuryWallet inserts.
NewWallet(adminId) ==
    [adminId |-> adminId, balance |-> 0, totalDeposited |-> 0,
     totalUsed |-> 0, totalEarned |-> 0, status |-> DefaultStatus]

\* "one row per admin": a table with that constraint refuses a second row
\* for an admin; the insert of createOrGetTreasuryWallet has no guard of
\* its own.
AdminIdTaken(tbl, adminId) == uniqueAdminId /\ WalletsOf(tbl, adminId) # <<>>

\* (variant: the where clause is missing)
UpdateWallets_all(tbl, adminId, fields) ==
    [i \in 1..Len(tbl) |->
        [f \in DOMAIN tbl[i] |->
            IF f \in DOMAIN fields THEN fields[f] ELSE tbl[i][f]]]
\* update(treasuryWallets).set(fields).where(eq(adminId)): every matching row.
UpdateWallets(tbl, adminId, fields) ==
    [i \in 1..Len(tbl) |->
        IF tbl[i].adminId = adminId
        THEN [f \in DOMAIN tbl[i] |->
                 IF f \in DOMAIN fields THEN fields[f] ELSE tbl[i][f]]
        ELSE tbl[i]]

\* createdAt of a new transaction row: the time of the insert, which is not
\* earlier than the createdAt of any row already in the table.
LastCreatedAt(log) ==
    IF log = <<>> THEN 0 ELSE log[Len(log)].createdAt
CreatedAtChoices(log) ==
    {t \in LastCreatedAt(log)..(LastCreatedAt(log) + 1) : t <= MaxClock}


\* Rows of one admin in the transaction table, in insertion order.
RowsOf(log, adminId) == SelectSeq(log, LAMBDA r : r.adminId = adminId)

\* (variant: the row is left pending)
TxRow_pending(log, adminId, type, amount, balanceBefore, balanceAfter, createdAt) ==
    [id |-> Len(log) + 1, adminId |-> adminId, type |-> type, amount |-> amount,
     status |-> "pending", balanceBefore |-> balanceBefore,
     balanceAfter |-> balanceAfter, createdAt |-> createdAt,
     reference |-> NoReference]
\* (variant: the two snapshots are stored in each other's column)
TxRow_swapped(log, adminId, type, amount, balanceBefore, balanceAfter, createdAt) ==
    [id |-> Len(log) + 1, adminId |-> adminId, type |-> type, amount |-> amount,
     status |-> "completed", balanceBefore |-> balanceAfter,
     balanceAfter |-> balanceBefore, createdAt |-> createdAt,
     reference |-> NoReference]
\* The row a deposit, debit or credit inserts; id is the table's serial key.
TxRow(log, adminId, type, amount, balanceBefore, balanceAfter, createdAt) ==
    [id |-> Len(log) + 1, adminId |-> adminId, type |-> type, amount |-> amount,
     status |-> "completed", balanceBefore |-> balanceBefore,
     balanceAfter |-> balanceAfter, createdAt |-> createdAt,
     reference |-> NoReference]

\* `reference: paystackReference` among the values of the deposit's insert.
WithReference(row, paystackReference) ==
    [row EXCEPT !.reference = paystackReference]

\* orderBy(desc(createdAt)): any arrangement of the rows with createdAt
\* non-increasing (rows of equal createdAt come in an order the query leaves open).
\* (variant: asc instead of desc)
OrderedAsc(s) == \A i \in 1..(Len(s) - 1) : s[i].createdAt <= s[i + 1].createdAt
OrderedDesc(s) == \A i \in 1..(Len(s) - 1) : s[i].createdAt >= s[i + 1].createdAt
Arrangements(rows) ==
    {[i \in 1..Len(rows) |-> rows[f[i]]] :
        f \in {g \in [1..Len(rows) -> 1..Len(rows)] :
                  \A i, j \in 1..Len(rows) : g[i] = g[j] => i = j}}
OrderByCreatedAtDesc(rows) == {s \in Arrangements(rows) : OrderedDesc(s)}

\* .limit(n)
Limit(s, n) == IF n >= Len(s) THEN s ELSE SubSeq(s, 1, n)

\* ------------------------------------------------- the service's arithmetic
\* depositToTreasuryWallet: newBalance, newDeposited.
\* (variant: the running total is not advanced)
DepositFields_noTotal(w, amount) ==
    [balance |-> DecimalPlus(w.balance, amount),
     totalDeposited |-> w.totalDeposited]
DepositFields(w, amount) ==
    [balance |-> DecimalPlus(w.balance, amount),
     totalDeposited |-> DecimalPlus(w.totalDeposited, amount)]

\* debitTreasuryWallet: the balance check, newBalance, newUsed.
\* (variant: a debit of the whole balance is refused too)
Insufficient_orEqual(w, amount) == ~DecimalLessThan(amount, w.balance)
\* (variant: the check is missing)
Insufficient_never(w, amount) == FALSE
Insufficient(w, amount) == DecimalLessThan(w.balance, amount)
\* (variant: the debit adds the amount to the balance)
DebitFields_plus(w, amount) ==
    [balance |-> DecimalPlus(w.balance, amount),
     totalUsed |-> DecimalPlus(w.totalUsed, amount)]
DebitFields(w, amount) ==
    [balance |-> DecimalMinus(w.balance, amount),
     totalUsed |-> DecimalPlus(w.totalUsed, amount)]

\* creditTreasuryWallet: newBalance, newEarned.
\* (variant: the credit is counted as a deposit)
CreditFields_asDeposit(w, amount) ==
    [balance |-> DecimalPlus(w.balance, amount),
     totalDeposited |-> DecimalPlus(w.totalDeposited, amount)]
CreditFields(w, amount) ==
    [balance |-> DecimalPlus(w.balance, amount),
     totalEarned |-> DecimalPlus(w.totalEarned, amount)]

\* (variant: the difference is taken the other way round)
Summary_usedMinusEarned(w) ==
    [balance |-> w.balance, totalDeposited |-> w.totalDeposited,
     totalUsed |-> w.totalUsed, totalEarned |-> w.totalEarned,
     netPnL |-> DecimalMinus(w.totalUsed, w.totalEarned),
     status |-> w.status]
\* getTreasuryWalletSummary: the object returned for a wallet.
Summary(w) ==
    [balance |-> w.balance, totalDeposited |-> w.totalDeposited,
     totalUsed |-> w.totalUsed, totalEarned |-> w.totalEarned,
     netPnL |-> DecimalMinus(w.totalEarned, w.totalUsed),
     status |-> w.status]

\* ------------------------------------------------------------ outcomes
None == [kind |-> "none", value |-> 0]
Ok(v) == [kind |-> "ok", value |-> v]
Threw(msg) == [kind |-> "error", value |-> msg]
Null == <<>>

NotFound == "Treasury wallet not found"
InsufficientBalance == "Insufficient Treasury balance"
DuplicateKey == "duplicate key"

Active(p) == pc[p] # "idle"
FirstIdle == IF pc["p1"] = "idle" THEN "p1" ELSE "p2"

\* Admin ids and payment references are opaque names, numbered here in the
\* order of their first use: the first call is for "a1", and "ref2" is passed
\* only once "ref1" has been.
FreshAdminOk(adminId) == adminId = "a1" \/ calls > 0
FreshReferenceOk(reference) ==
    \/ reference \in {NoReference, "ref1"}
    \/ \E p \in Procs : call[p].reference = "ref1"
    \/ \E i \in 1..Len(treasuryWalletTransactions) :
           treasuryWalletTransactions[i].reference = "ref1"

\* ------------------------------------------------------------------ Init
Start(unique) ==
    /\ uniqueAdminId = unique
    /\ treasuryWallets = <<>>
    /\ treasuryWalletTransactions = <<>>
    /\ pc = [p \in Procs |-> "idle"]
    /\ call = [p \in Procs |-> [op |-> "create", adminId |-> "a1", amount |-> 0,
                                limit |-> DefaultLimit,
                                reference |-> NoReference]]
    /\ wallet = [p \in Procs |-> Null]
    /\ ret = [p \in Procs |-> None]
    /\ pre = [p \in Procs |-> <<>>]
    /\ post = [p \in Procs |-> <<>>]
    /\ logAt = [p \in Procs |-> 0]
    /\ solo = [p \in Procs |-> TRUE]
    /\ overlapped = [a \in Admins |-> FALSE]
    /\ calls = 0
    /\ depositAmount = <<>>
    /\ isProcessing = FALSE
    /\ inFlight = FALSE
    /\ requests = <<>>
    /\ alerts = 0
    /\ location = "panel"
    /\ mounted = TRUE

\* The tables as Spec takes them, and with nothing but the service's code.
Init == Start(TRUE)
InitAsWritten == Start(FALSE)


\* A request handler calls one of the exported functions: the call runs to its
\* first database statement, which is where it first touches the state.  The
\* processes are interchangeable slots for calls in progress: a new call
\* takes the first free one.
Begin(p, op, adminId, amount, limit, reference) ==
    /\ pc[p] = "idle"
    /\ p = FirstIdle
    /\ calls < MaxCalls
    /\ FreshAdminOk(adminId)
    /\ FreshReferenceOk(reference)
    /\ calls' = calls + 1
    /\ call' = [call EXCEPT ![p] = [op |-> op, adminId |-> adminId,
                                    amount |-> amount, limit |-> limit,
                                    reference |-> reference]]
    /\ pre' = [pre EXCEPT ![p] = WalletsOf(treasuryWallets, adminId)]
    /\ logAt' = [logAt EXCEPT ![p] = Len(treasuryWalletTransactions)]
    /\ solo' = [q \in Procs |->
                   IF q = p
                   THEN \A o \in Procs \ {p} :
                            ~(Active(o) /\ call[o].adminId = adminId)
                   ELSE IF Active(q) /\ call[q].adminId = adminId
                        THEN FALSE ELSE solo[q]]
    /\ overlapped' = [overlapped EXCEPT ![adminId] =
                         @ \/ \E o \in Procs \ {p} :
                                  Active(o) /\ call[o].adminId = adminId]
    /\ UNCHANGED <<uniqueAdminId, panelVars>>

\* A later statement of a call in progress.
Continue ==
    UNCHANGED <<call, pre, logAt, solo, overlapped, calls, uniqueAdminId, panelVars>>

\* The call of p ends with outcome r; tbl is the wallet table it leaves.
Return(p, adminId, r, tbl) ==
    /\ pc' = [pc EXCEPT ![p] = "idle"]
    /\ ret' = [ret EXCEPT ![p] = r]
    /\ post' = [post EXCEPT ![p] = WalletsOf(tbl, adminId)]
    /\ wallet' = [wallet EXCEPT ![p] = Null]

\* The call of p goes on to the await `next`, its local `wallet` being w.
Goto(p, next, w) ==
    /\ pc' = [pc EXCEPT ![p] = next]
    /\ wallet' = [wallet EXCEPT ![p] = w]
    /\ ret' = [ret EXCEPT ![p] = None]
    /\ post' = [post EXCEPT ![p] = <<>>]

\* ---------------------------------------------- createOrGetTreasuryWallet
\* `existing = await getTreasuryWallet(adminId)`; an existing wallet is
\* returned to the caller.
createOrGetTreasuryWallet(p, adminId) ==
    /\ Begin(p, "create", adminId, 0, DefaultLimit, NoReference)
    /\ \E existing \in SelectOne(treasuryWallets, adminId) :
          IF existing = Null
          THEN Goto(p, "insertWallet", Null)
          ELSE Return(p, adminId, Ok(existing[1]), treasuryWallets)
    /\ UNCHANGED <<treasuryWallets, treasuryWalletTransactions>>

\* `await db.insert(treasuryWallets).values({...}).returning()`, for a direct
\* call and for the call made by depositToTreasuryWallet, which goes on.
createOrGetTreasuryWallet_insert(p) ==
    /\ pc[p] = "insertWallet"
    /\ IF AdminIdTaken(treasuryWallets, call[p].adminId)
       THEN /\ Return(p, call[p].adminId, Threw(DuplicateKey), treasuryWallets)
            /\ UNCHANGED treasuryWallets
       ELSE /\ treasuryWallets' = Append(treasuryWallets, NewWallet(call[p].adminId))
            /\ IF call[p].op = "create"
               THEN Return(p, call[p].adminId, Ok(NewWallet(call[p].adminId)),
                           treasuryWallets')
               ELSE Goto(p, "update", <<NewWallet(call[p].adminId)>>)
    /\ Continue
    /\ UNCHANGED treasuryWalletTransactions

\* ------------------------------------------------ depositToTreasuryWallet
\* `wallet = await createOrGetTreasuryWallet(adminId)`, its select.
depositToTreasuryWallet(p, adminId, amount, paystackReference) ==
    /\ Begin(p, "deposit", adminId, amount, DefaultLimit, paystackReference)
    /\ \E existing \in SelectOne(treasuryWallets, adminId) :
          IF existing = Null
          THEN Goto(p, "insertWallet", Null)
          ELSE Goto(p, "update", existing)
    /\ UNCHANGED <<treasuryWallets, treasuryWalletTransactions>>

\* `await db.update(treasuryWallets).set({balance, totalDeposited})`
depositToTreasuryWallet_update(p) ==
    /\ pc[p] = "update"
    /\ call[p].op = "deposit"
    /\ treasuryWallets' = UpdateWallets(treasuryWallets, call[p].adminId,
                                        DepositFields(wallet[p][1], call[p].amount))
    /\ Goto(p, "record", wallet[p])
    /\ Continue
    /\ UNCHANGED treasuryWalletTransactions

\* `await db.insert(treasuryWalletTransactions).values({...}); return newBalance`
depositToTreasuryWallet_record(p) ==
    /\ pc[p] = "record"
    /\ call[p].op = "deposit"
    /\ \E t \in CreatedAtChoices(treasuryWalletTransactions) :
          treasuryWalletTransactions' =
              Append(treasuryWalletTransactions,
                     WithReference(
                         TxRow(treasuryWalletTransactions, call[p].adminId,
                               "deposit", call[p].amount, wallet[p][1].balance,
                               DepositFields(wallet[p][1], call[p].amount).balance,
                               t),
                         call[p].reference))
    /\ Return(p, call[p].adminId,
              Ok(DepositFields(wallet[p][1], call[p].amount).balance),
              treasuryWallets)
    /\ Continue
    /\ UNCHANGED treasuryWallets

\* ---------------------------------------------------- debitTreasuryWallet
\* `wallet = await getTreasuryWallet(adminId)` and the two checks after it.
debitTreasuryWallet(p, adminId, amount) ==
    /\ Begin(p, "debit", adminId, amount, DefaultLimit, NoReference)
    /\ \E w \in SelectOne(treasuryWallets, adminId) :
          IF w = Null
          THEN Return(p, adminId, Threw(NotFound), treasuryWallets)
          ELSE IF Insufficient(w[1], amount)
               THEN Return(p, adminId, Threw(InsufficientBalance), treasuryWallets)
               ELSE Goto(p, "update", w)
    /\ UNCHANGED <<treasuryWallets, treasuryWalletTransactions>>

\* `await db.update(treasuryWallets).set({balance, totalUsed})`
debitTreasuryWallet_update(p) ==
    /\ pc[p] = "update"
    /\ call[p].op = "debit"
    /\ treasuryWallets' = UpdateWallets(treasuryWallets, call[p].adminId,
                                        DebitFields(wallet[p][1], call[p].amount))
    /\ Goto(p, "record", wallet[p])
    /\ Continue
    /\ UNCHANGED treasuryWalletTransactions

\* `await db.insert(treasuryWalletTransactions).values({...}); return newBalance`
debitTreasuryWallet_record(p) ==
    /\ pc[p] = "record"
    /\ call[p].op = "debit"
    /\ \E t \in CreatedAtChoices(treasuryWalletTransactions) :
          treasuryWalletTransactions' =
              Append(treasuryWalletTransactions,
                     TxRow(treasuryWalletTransactions, call[p].adminId, "debit",
                           call[p].amount, wallet[p][1].balance,
                           DebitFields(wallet[p][1], call[p].amount).balance, t))
    /\ Return(p, call[p].adminId,
              Ok(DebitFields(wallet[p][1], call[p].amount).balance),
              treasuryWallets)
    /\ Continue
    /\ UNCHANGED treasuryWallets

\* --------------------------------------------------- creditTreasuryWallet
\* (variant: the credit looks the wallet up with createOrGetTreasuryWallet)
creditTreasuryWallet_upsert(p, adminId, amount) ==
    /\ Begin(p, "credit", adminId, amount, DefaultLimit, NoReference)
    /\ \E w \in SelectOne(treasuryWallets, adminId) :
          IF w = Null
          THEN Goto(p, "insertWallet", Null)
          ELSE Goto(p, "update", w)
    /\ UNCHANGED <<treasuryWallets, treasuryWalletTransactions>>
\* `wallet = await getTreasuryWallet(adminId)` and the check after it.
creditTreasuryWallet(p, adminId, amount) ==
    /\ Begin(p, "credit", adminId, amount, DefaultLimit, NoReference)
    /\ \E w \in SelectOne(treasuryWallets, adminId) :
          IF w = Null
          THEN Return(p, adminId, Threw(NotFound), treasuryWallets)
          ELSE Goto(p, "update", w)
    /\ UNCHANGED <<treasuryWallets, treasuryWalletTransactions>>

\* `await db.update(treasuryWallets).set({balance, totalEarned})`
creditTreasuryWallet_update(p) ==
    /\ pc[p] = "update"
    /\ call[p].op = "credit"
    /\ treasuryWallets' = UpdateWallets(treasuryWallets, call[p].adminId,
                                        CreditFields(wallet[p][1], call[p].amount))
    /\ Goto(p, "record", wallet[p])
    /\ Continue
    /\ UNCHANGED treasuryWalletTransactions

\* `await db.insert(treasuryWalletTransactions).values({...}); return newBalance`
creditTreasuryWallet_record(p) ==
    /\ pc[p] = "record"
    /\ call[p].op = "credit"
    /\ \E t \in CreatedAtChoices(treasuryWalletTransactions) :
          treasuryWalletTransactions' =
              Append(treasuryWalletTransactions,
                     TxRow(treasuryWalletTransactions, call[p].adminId, "credit",
                           call[p].amount, wallet[p][1].balance,
                           CreditFields(wallet[p][1], call[p].amount).balance, t))
    /\ Return(p, call[p].adminId,
              Ok(CreditFields(wallet[p][1], call[p].amount).balance),
              treasuryWallets)
    /\ Continue
    /\ UNCHANGED treasuryWallets

\* ----------------------------------------------------------- the read side
\* `wallet = await db.select()...limit(1); return wallet.length > 0 ? wallet[0] : null`
getTreasuryWallet(p, adminId) ==
    /\ Begin(p, "get", adminId, 0, DefaultLimit, NoReference)
    /\ \E w \in SelectOne(treasuryWallets, adminId) :
          Return(p, adminId, IF w = Null THEN Ok(Null) ELSE Ok(w[1]),
                 treasuryWallets)
    /\ UNCHANGED <<treasuryWallets, treasuryWalletTransactions>>

\* `wallet = await getTreasuryWallet(adminId)`; null, or the summary object.
getTreasuryWalletSummary(p, adminId) ==
    /\ Begin(p, "summary", adminId, 0, DefaultLimit, NoReference)
    /\ \E w \in SelectOne(treasuryWallets, adminId) :
          Return(p, adminId, IF w = Null THEN Ok(Null) ELSE Ok(Summary(w[1])),
                 treasuryWallets)
    /\ UNCHANGED <<treasuryWallets, treasuryWalletTransactions>>

\* `return await db.select()...where(eq(adminId)).orderBy(desc(createdAt)).limit(limit)`
getTreasuryWalletTransactions(p, adminId, limit) ==
    /\ Begin(p, "transactions", adminId, 0, limit, NoReference)
    /\ \E s \in OrderByCreatedAtDesc(RowsOf(treasuryWalletTransactions, adminId)) :
          Return(p, adminId, Ok(Limit(s, limit)), treasuryWallets)
    /\ UNCHANGED <<treasuryWallets, treasuryWalletTransactions>>

\* ------------------------------------------------------------------ Next
Next ==
    \/ \E p \in Procs, adminId \in Admins : getTreasuryWallet(p, adminId)
    \/ \E p \in Procs, adminId \in Admins : createOrGetTreasuryWallet(p, adminId)
    \/ \E p \in Procs : createOrGetTreasuryWallet_insert(p)
    \/ \E p \in Procs, adminId \in Admins, amount \in Amounts,
          paystackReference \in References :
          depositToTreasuryWallet(p, adminId, amount, paystackReference)
    \/ \E p \in Procs : depositToTreasuryWallet_update(p)
    \/ \E p \in Procs : depositToTreasuryWallet_record(p)
    \/ \E p \in Procs, adminId \in Admins, amount \in Amounts :
          debitTreasuryWallet(p, adminId, amount)
    \/ \E p \in Procs : debitTreasuryWallet_update(p)
    \/ \E p \in Procs : debitTreasuryWallet_record(p)
    \/ \E p \in Procs, adminId \in Admins, amount \in Amounts :
          creditTreasuryWallet(p, adminId, amount)
    \/ \E p \in Procs : creditTreasuryWallet_update(p)
    \/ \E p \in Procs : creditTreasuryWallet_record(p)
    \/ \E p \in Procs, adminId \in Admins : getTreasuryWalletSummary(p, adminId)
    \/ \E p \in Procs, adminId \in Admins, limit \in Limits :
          getTreasuryWalletTransactions(p, adminId, limit)

Spec == Init /\ [][Next]_vars

\* The service when no insert into treasuryWallets is refused.
SpecAsWritten == InitAsWritten /\ [][Next]_vars

\* ======================================================================
\* The admin panel: the deposit dialog of TreasuryWalletPanel
\* ======================================================================
\* A text is a sequence of characters.  A character is written as itself
\* when it is printable ASCII, as "\t", "\n", "\r", "\f" for those four, and
\* as "U+hhhh" (its code point) otherwise.

\* Texts the amount field delivers (e.target.value of its onChange).  The
\* field has type="number": what is typed is delivered when it is a valid
\* floating-point number and as the empty text otherwise.
Entries ==
    { <<>>,
      <<"0">>,
      <<"-", "5">>,
      <<"5", "0", "0">>,
      <<"9", "9", "9", ".", "5">>,
      <<"1", "0", "0", "0">>,
      <<"2", "0", "0", "0">>,
      <<"1", "e", "3">>,
      <<"5", "e", "2">> }

\* StrWhiteSpaceChar of parseFloat: WhiteSpace and LineTerminator.
WhiteSpace ==
    { " ", "\t", "\n", "\r", "\f", "U+000B", "U+00A0", "U+FEFF", "U+2028",
      "U+2029", "U+1680", "U+2000", "U+2001", "U+2002", "U+2003", "U+2004",
      "U+2005", "U+2006", "U+2007", "U+2008", "U+2009", "U+200A", "U+202F",
      "U+205F", "U+3000" }

DigitValue ==
    [c \in {"0", "1", "2", "3", "4", "5", "6", "7", "8", "9"} |->
        CASE c = "0" -> 0 [] c = "1" -> 1 [] c = "2" -> 2 [] c = "3" -> 3
          [] c = "4" -> 4 [] c = "5" -> 5 [] c = "6" -> 6 [] c = "7" -> 7
          [] c = "8" -> 8 [] c = "9" -> 9]

InfinityText == <<"I", "n", "f", "i", "n", "i", "t", "y">>

Drop(str, n) == SubSeq(str, n + 1, Len(str))

StartsWith(str, prefix) ==
    Len(str) >= Len(prefix) /\ SubSeq(str, 1, Len(prefix)) = prefix

\* The index of the first character of str that is not in chars, or
\* Len(str) + 1 when there is none.
FirstNotIn(str, chars) ==
    CHOOSE i \in 1..(Len(str) + 1) :
        /\ i = Len(str) + 1 \/ str[i] \notin chars
        /\ \A j \in 1..(i - 1) : str[j] \in chars

\* The index of the last digit that is not "0", or 0 when there is none.
LastNonZero(digits) ==
    CHOOSE i \in 0..Len(digits) :
        /\ i = 0 \/ digits[i] # "0"
        /\ \A j \in (i + 1)..Len(digits) : digits[j] = "0"

SkipSpaces(str) == Drop(str, FirstNotIn(str, WhiteSpace) - 1)

\* The longest prefix of str made of decimal digits.
DigitPrefix(str) == SubSeq(str, 1, FirstNotIn(str, DOMAIN DigitValue) - 1)

StripLeadingZeros(digits) == Drop(digits, FirstNotIn(digits, {"0"}) - 1)

StripTrailingZeros(digits) == SubSeq(digits, 1, LastNonZero(digits))

RECURSIVE DigitsToNat(_)
\* The value of at most nine digits.
DigitsToNat(digits) ==
    IF digits = <<>> THEN 0
    ELSE 10 * DigitsToNat(SubSeq(digits, 1, Len(digits) - 1))
         + DigitValue[digits[Len(digits)]]

\* The value of the digits of an exponent, or cap (below 10^9) when the
\* value is larger.
ExponentValue(digits, cap) ==
    LET d == StripLeadingZeros(digits)
    IN IF Len(d) > 9 \/ DigitsToNat(d) > cap THEN cap ELSE DigitsToNat(d)

\* A JavaScript number: NaN, an infinity, or the double nearest to the
\* decimal (+/-) mant * 10^exp, where mant is a sequence of digits with no
\* zero at either end (the empty sequence, with exp = 0, for the two zeros).
\* Two decimals of more than fifteen digits can have the same nearest double.
NaN == [kind |-> "nan", negative |-> FALSE, mant |-> <<>>, exp |-> 0]
Infinity(negative) ==
    [kind |-> "infinity", negative |-> negative, mant |-> <<>>, exp |-> 0]
Zero(negative) ==
    [kind |-> "finite", negative |-> negative, mant |-> <<>>, exp |-> 0]

\* The characters of a string, as a sequence.
Chars(str) == [i \in 1..Len(str) |-> SubSeq(str, i, i)]

\* The power of ten of the first digit of a decimal that is not zero.
Magnitude(d) == Len(d.mant) + d.exp - 1

\* The first index at which two sequences of digits differ, or one more
\* than the length of the shorter when that one is a prefix of the other.
FirstDifference(a, b) ==
    LET n == IF Len(a) < Len(b) THEN Len(a) ELSE Len(b)
    IN CHOOSE i \in 1..(n + 1) :
           /\ i = n + 1 \/ a[i] # b[i]
           /\ \A j \in 1..(i - 1) : a[j] = b[j]

\* a < b, for two decimals that are not zero.
Less(a, b) ==
    IF Magnitude(a) # Magnitude(b) THEN Magnitude(a) < Magnitude(b)
    ELSE LET i == FirstDifference(a.mant, b.mant)
         IN IF i <= Len(a.mant) /\ i <= Len(b.mant)
            THEN DigitValue[a.mant[i]] < DigitValue[b.mant[i]]
            ELSE Len(a.mant) < Len(b.mant)

\* 2^1024 - 2^970, half way from the largest double to 2^1024: a decimal
\* from there on is nearest to no finite double.
Overflow ==
    [mant |-> Chars("179769313486231580793728971405303415079934132710037826936173"
                   \o "778980444968292764750946649017977587207096330286416692887910"
                   \o "946555547851940402630657488671505820681908902000708383676273"
                   \o "854845817711531764475730270069855571366959622842914819860834"
                   \o "936475292719074168444365510704342711559699508093042880177904"
                   \o "174497792"),
     exp |-> 0]

\* 2^-1075, half the smallest double: a decimal up to there is nearest to 0.
Underflow ==
    [mant |-> Chars("247032822920623272088284396434110686182529901307162382212792"
                   \o "841250337753635104375932649918180817996189898282347722858865"
                   \o "463328355177969898199387398005390939063150356595155702263922"
                   \o "908583924491051844359318028499365361525003193704576782492193"
                   \o "656236698636584807570015857692699037063119282795585513329278"
                   \o "343384093519780155312465972635795746227664652728272200563740"
                   \o "064854999770965994704540208281662262378573934507363390079677"
                   \o "619305775067401763246736009689513405355374585166611342237666"
                   \o "786041621596804619144672918403005300575308490487653917113865"
                   \o "916462395249126236538818796362393732804238910186723484976682"
                   \o "350898633885879256283027559956575244555072551893136908362547"
                   \o "791869486679949683240497058210285131854513962138377228261454"
                   \o "37693412532098591327667236328125"),
     exp |-> 0 - 1075]

\* The double of the decimal (+/-) digits * 10^e.
ToNumber(negative, digits, e) ==
    LET lead == StripLeadingZeros(digits)
        sig == StripTrailingZeros(lead)
        d == [mant |-> sig, exp |-> e + (Len(lead) - Len(sig))]
    IN IF sig = <<>> THEN Zero(negative)
       ELSE IF ~Less(d, Overflow) THEN Infinity(negative)
       ELSE IF ~Less(Underflow, d) THEN Zero(negative)
       ELSE [kind |-> "finite", negative |-> negative,
             mant |-> d.mant, exp |-> d.exp]

\* parseFloat(str): leading white space is skipped, then the longest prefix
\* that is a decimal literal is read: [+-]Infinity, or
\* [+-]digits[.digits][(e|E)[+-]digits] with a digit before or after the
\* point; NaN when there is none.
parseFloat(str) ==
    LET s1 == SkipSpaces(str)
        signed == s1 # <<>> /\ Head(s1) \in {"+", "-"}
        negative == s1 # <<>> /\ Head(s1) = "-"
        s2 == IF signed THEN Tail(s1) ELSE s1
        int == DigitPrefix(s2)
        s3 == Drop(s2, Len(int))
        hasPoint == s3 # <<>> /\ Head(s3) = "."
        frac == IF hasPoint THEN DigitPrefix(Tail(s3)) ELSE <<>>
        s4 == IF hasPoint THEN Drop(s3, 1 + Len(frac)) ELSE s3
        s5 == IF s4 # <<>> /\ Head(s4) \in {"e", "E"} THEN Tail(s4) ELSE <<>>
        expSigned == s5 # <<>> /\ Head(s5) \in {"+", "-"}
        expNegative == s5 # <<>> /\ Head(s5) = "-"
        expDigits == DigitPrefix(IF expSigned THEN Tail(s5) ELSE s5)
        \* An exponent is read exactly up to cap.  The digits before it
        \* shift the magnitude by less than Len(str), so that every exponent
        \* beyond cap gives what cap gives: an infinity, or zero.
        cap == Len(str) + 400
        exponent == IF expNegative THEN 0 - ExponentValue(expDigits, cap)
                    ELSE ExponentValue(expDigits, cap)
    IN IF StartsWith(s2, InfinityText) THEN Infinity(negative)
       ELSE IF int = <<>> /\ frac = <<>> THEN NaN
       ELSE ToNumber(negative, int \o frac, exponent - Len(frac))

\* `!amount`: NaN and the zeros are falsy.
Falsy(amount) ==
    amount.kind = "nan" \/ (amount.kind = "finite" /\ amount.mant = <<>>)
\* `amount <= 0` (false for NaN)
NotPositive(amount) ==
    amount.kind # "nan" /\ (amount.negative \/ Falsy(amount))

\* handleDeposit: `if (!amount || amount <= 0)`
Rejected(amount) == Falsy(amount) \/ NotPositive(amount)

\* onChange of the amount field: setDepositAmount(e.target.value)
setDepositAmount(value) ==
    /\ mounted
    /\ value # depositAmount
    /\ depositAmount' = value
    /\ UNCHANGED <<isProcessing, inFlight, requests, alerts, location, mounted,
                   ledgerVars>>

\* The button is `disabled={isProcessing || !depositAmount}`.
ButtonEnabled == ~isProcessing /\ depositAmount # <<>>

\* onClick of 'Continue to Payment' with an entry handleDeposit rejects:
\* alert('Please enter a valid amount'); return
handleDeposit_reject ==
    /\ mounted
    /\ ButtonEnabled
    /\ Rejected(parseFloat(depositAmount))
    /\ alerts < MaxAlerts
    /\ alerts' = alerts + 1
    /\ UNCHANGED <<depositAmount, isProcessing, inFlight, requests, location,
                   mounted, ledgerVars>>

\* onClick with an entry handleDeposit accepts: setIsProcessing(true);
\* initiateDepositMutation.mutate(amount, ...) posts the request.
handleDeposit_send ==
    /\ mounted
    /\ ButtonEnabled
    /\ ~Rejected(parseFloat(depositAmount))
    /\ Len(requests) < MaxRequests
    /\ isProcessing' = TRUE
    /\ inFlight' = TRUE
    /\ requests' = Append(requests, parseFloat(depositAmount))
    /\ UNCHANGED <<depositAmount, alerts, location, mounted, ledgerVars>>

\* The request succeeds: onSuccess assigns window.location.href, which
\* starts the navigation to Paystack; then onSettled: setIsProcessing(false).
\* The panel stays and handles events until the new document is loaded.
mutation_onSuccess ==
    /\ mounted
    /\ inFlight
    /\ inFlight' = FALSE
    /\ location' = "paystack"
    /\ isProcessing' = FALSE
    /\ UNCHANGED <<depositAmount, requests, alerts, mounted, ledgerVars>>

\* The request fails: only onSettled: setIsProcessing(false).
mutation_onError ==
    /\ mounted
    /\ inFlight
    /\ inFlight' = FALSE
    /\ isProcessing' = FALSE
    /\ UNCHANGED <<depositAmount, requests, alerts, location, mounted, ledgerVars>>

\* The navigation started by onSuccess completes: the browser replaces the
\* panel's document, and none of its handlers or callbacks runs any more.
navigate ==
    /\ mounted
    /\ location = "paystack"
    /\ mounted' = FALSE
    /\ UNCHANGED <<depositAmount, isProcessing, inFlight, requests, alerts,
                   location, ledgerVars>>

NextPanel ==
    \/ \E value \in Entries : setDepositAmount(value)
    \/ handleDeposit_reject
    \/ handleDeposit_send
    \/ mutation_onSuccess
    \/ mutation_onError
    \/ navigate

SpecPanel == Init /\ [][NextPanel]_vars

TypeOK ==
    /\ pc \in [Procs -> {"idle", "insertWallet", "update", "record"}]
    /\ calls \in 0..MaxCalls
    /\ Len(treasuryWalletTransactions) <= calls


\* ======================================================================
\* Properties
\* ======================================================================
Log == treasuryWalletTransactions

\* The wallet a call found when it started: the stored row, or the all-zero
\* wallet that lookup-or-create starts from.
Before(p) == IF pre[p] = <<>> THEN NewWallet(call[p].adminId) ELSE pre[p][1]

\* p's last call was a deposit, debit or credit that completed without error.
Done(p) == pc[p] = "idle" /\ ret[p].kind = "ok" /\ call[p].op \in Mutating

Quiet(a) == \A p \in Procs : ~(Active(p) /\ call[p].adminId = a)

RECURSIVE SumOf(_, _)
\* Sum of the amounts of the rows of s whose type is in types.
SumOf(s, types) ==
    IF s = <<>> THEN 0
    ELSE (IF Head(s).type \in types THEN Head(s).amount ELSE 0)
         + SumOf(Tail(s), types)

\* C1: every transaction row satisfies the snapshot equation: balanceAfter =
\* balanceBefore + amount for deposit and credit rows, balanceBefore - amount
\* for debit rows, in every reachable state, overlapping calls included.
C1_SnapshotEquation ==
    \A i \in 1..Len(Log) :
        /\ Log[i].type \in {"deposit", "credit"} =>
               Log[i].balanceAfter = Log[i].balanceBefore + Log[i].amount
        /\ Log[i].type = "debit" =>
               Log[i].balanceAfter = Log[i].balanceBefore - Log[i].amount

\* Rows of overlapping calls: a debit row and a deposit or credit row of an
\* admin whose calls have overlapped, with amounts that are not zero.
C1_Witness ==
    \E a \in Admins :
        /\ overlapped[a]
        /\ \E i, j \in 1..Len(Log) :
              /\ Log[i].adminId = a /\ Log[i].type = "debit" /\ Log[i].amount # 0
              /\ Log[j].adminId = a /\ Log[j].type = "credit" /\ Log[j].amount # 0

\* C2: a call that completes without error and overlaps no other call for
\* its admin applies one signed delta and one running total, leaves the other
\* two totals alone, and returns the new balance.
C2_OneDeltaOneTotal ==
    \A p \in Procs :
        (Done(p) /\ solo[p]) =>
            /\ Len(post[p]) = 1
            /\ ret[p].value = post[p][1].balance
            /\ call[p].op = "deposit" =>
                  /\ post[p][1].balance = Before(p).balance + call[p].amount
                  /\ post[p][1].totalDeposited =
                         Before(p).totalDeposited + call[p].amount
                  /\ post[p][1].totalUsed = Before(p).totalUsed
                  /\ post[p][1].totalEarned = Before(p).totalEarned
            /\ call[p].op = "debit" =>
                  /\ post[p][1].balance = Before(p).balance - call[p].amount
                  /\ post[p][1].totalUsed = Before(p).totalUsed + call[p].amount
                  /\ post[p][1].totalDeposited = Before(p).totalDeposited
                  /\ post[p][1].totalEarned = Before(p).totalEarned
            /\ call[p].op = "credit" =>
                  /\ post[p][1].balance = Before(p).balance + call[p].amount
                  /\ post[p][1].totalEarned = Before(p).totalEarned + call[p].amount
                  /\ post[p][1].totalDeposited = Before(p).totalDeposited
                  /\ post[p][1].totalUsed = Before(p).totalUsed

\* A credit of a non-zero amount has completed alone on a funded wallet.
C2_Witness ==
    \E p \in Procs :
        /\ Done(p) /\ solo[p]
        /\ call[p].op = "credit" /\ call[p].amount = 1
        /\ pre[p] # <<>> /\ pre[p][1].totalDeposited = 1
        /\ post[p][1].totalEarned = 1 /\ post[p][1].balance = 2

\* C3 (as claimed): after every deposit, debit or credit that completes
\* without error, whatever its amount, each running total is at least what it
\* was before the call.
C3_TotalsNonDecreasing ==
    \A p \in Procs :
        Done(p) =>
            /\ Len(post[p]) = 1
            /\ post[p][1].totalDeposited >= Before(p).totalDeposited
            /\ post[p][1].totalUsed >= Before(p).totalUsed
            /\ post[p][1].totalEarned >= Before(p).totalEarned

\* C4 (as claimed): when all calls for an admin have completed, overlapping
\* or not, the balance is the sum of the deposit and credit amounts minus the
\* debit amounts of the rows written, and each running total is the sum of
\* the amounts of the rows of its type (the ledger starts empty).
C4_NoLostUpdate ==
    \A a \in Admins :
        (Quiet(a) /\ WalletsOf(treasuryWallets, a) # <<>>) =>
            \A i \in 1..Len(WalletsOf(treasuryWallets, a)) :
                LET w == WalletsOf(treasuryWallets, a)[i]
                    rows == RowsOf(Log, a)
                IN /\ w.balance = SumOf(rows, {"deposit", "credit"})
                                  - SumOf(rows, {"debit"})
                   /\ w.totalDeposited = SumOf(rows, {"deposit"})
                   /\ w.totalUsed = SumOf(rows, {"debit"})
                   /\ w.totalEarned = SumOf(rows, {"credit"})

\* C5 (as claimed): there is at most one wallet row per admin in every
\* reachable state, also when two lookup-or-create calls for an admin who
\* has no wallet yet both read "no wallet" before either inserts.
C5_OneWalletPerAdmin ==
    \A a \in Admins : Len(WalletsOf(treasuryWallets, a)) <= 1


\* In the step at hand, p starts a call / p's call ends.
Begins(p) == calls' # calls /\ p = FirstIdle
Completes(p) == pc'[p] = "idle" /\ (pc[p] # "idle" \/ Begins(p))
CompletesOk(p) == Completes(p) /\ ret'[p].kind = "ok"

\* C6: the transaction log is append-only and immutable; a deposit, debit or
\* credit that completes without error appends exactly one row, of its type
\* and with status 'completed'; no other step of any call appends a row.
C6_AppendOnly ==
    [][ /\ Len(Log') >= Len(Log)
        /\ SubSeq(Log', 1, Len(Log)) = Log
        /\ \A p \in Procs :
              (CompletesOk(p) /\ call'[p].op \in Mutating) =>
                  /\ Len(Log') = Len(Log) + 1
                  /\ Log'[Len(Log')].type = call'[p].op
                  /\ Log'[Len(Log')].status = "completed"
                  /\ Log'[Len(Log')].adminId = call'[p].adminId
                  /\ Log'[Len(Log')].amount = call'[p].amount
        /\ (~\E p \in Procs : CompletesOk(p) /\ call'[p].op \in Mutating) =>
              Log' = Log
      ]_vars

\* A history query has returned after two rows were written.
C6_Witness ==
    \E p \in Procs :
        /\ pc[p] = "idle" /\ ret[p].kind = "ok" /\ call[p].op = "transactions"
        /\ logAt[p] = 2 /\ Len(Log) = 2
        /\ Len(ret[p].value) >= 1

\* C7: lookup-or-create.  createOrGetTreasuryWallet returns an existing
\* wallet and changes nothing; without one it creates a wallet whose balance
\* and totals are zero.  A deposit of a for an admin without a wallet (no
\* other call for the admin overlapping) ends with balance = totalDeposited =
\* a and a single deposit row with balanceBefore 0 and balanceAfter a.
C7_LookupOrCreate ==
    [][ \A p \in Procs :
          LET a == call'[p].adminId
              had == WalletsOf(treasuryWallets, a)
              has == WalletsOf(treasuryWallets', a)
              rows == RowsOf(Log', a)
          IN
          /\ (Begins(p) /\ call'[p].op = "create" /\ had # <<>>) =>
                /\ treasuryWallets' = treasuryWallets
                /\ Log' = Log
                /\ pc'[p] = "idle"
                /\ ret'[p].kind = "ok"
                /\ \E i \in 1..Len(had) : ret'[p].value = had[i]
          /\ (CompletesOk(p) /\ call'[p].op = "create" /\ pre'[p] = <<>>) =>
                /\ Len(has) = 1
                /\ ret'[p].value = has[1]
                /\ has[1].balance = 0 /\ has[1].totalDeposited = 0
                /\ has[1].totalUsed = 0 /\ has[1].totalEarned = 0
          /\ (CompletesOk(p) /\ call'[p].op = "deposit" /\ pre'[p] = <<>>
                /\ solo'[p]) =>
                /\ Len(has) = 1
                /\ has[1].balance = call'[p].amount
                /\ has[1].totalDeposited = call'[p].amount
                /\ has[1].totalUsed = 0 /\ has[1].totalEarned = 0
                /\ Len(rows) = 1
                /\ rows[1].type = "deposit"
                /\ rows[1].balanceBefore = 0
                /\ rows[1].balanceAfter = call'[p].amount
      ]_vars

\* A deposit of 1 has completed for an admin who had no wallet.
C7_Witness ==
    \E p \in Procs :
        /\ Done(p) /\ solo[p] /\ call[p].op = "deposit" /\ call[p].amount = 1
        /\ pre[p] = <<>>
        /\ post[p] # <<>> /\ post[p][1].balance = 1
        /\ Len(RowsOf(Log, call[p].adminId)) = 1

\* C8 (as claimed): no state is reachable in which a wallet's balance has been
\* changed (it is no longer the 0 it was created with) while the log holds no
\* row of that admin whose balanceAfter is that balance.
C8_BalanceHasRow ==
    \A a \in Admins :
        \A i \in 1..Len(WalletsOf(treasuryWallets, a)) :
            WalletsOf(treasuryWallets, a)[i].balance # 0 =>
                \E j \in 1..Len(Log) :
                    /\ Log[j].adminId = a
                    /\ Log[j].balanceAfter = WalletsOf(treasuryWallets, a)[i].balance

\* C9: when the calls for an admin have not overlapped and none is in
\* progress, the admin's rows in insertion order form a chain: the first
\* balanceBefore is 0, each later balanceBefore is the previous balanceAfter,
\* and the last balanceAfter is the wallet's balance.
C9_Chain ==
    \A a \in Admins :
        (~overlapped[a] /\ Quiet(a) /\ RowsOf(Log, a) # <<>>) =>
            LET rows == RowsOf(Log, a)
                ws == WalletsOf(treasuryWallets, a)
            IN /\ rows[1].balanceBefore = 0
               /\ \A i \in 2..Len(rows) :
                     rows[i].balanceBefore = rows[i - 1].balanceAfter
               /\ Len(ws) = 1
               /\ rows[Len(rows)].balanceAfter = ws[1].balance

\* Three calls, one after another, have written three rows for one admin,
\* each changing the balance.
C9_Witness ==
    \E a \in Admins :
        /\ ~overlapped[a] /\ Quiet(a)
        /\ Len(RowsOf(Log, a)) = 3
        /\ \A i \in 1..3 : RowsOf(Log, a)[i].amount # 0
        /\ RowsOf(Log, a)[2].type = "debit"

\* C10: the ledger is per admin: a step of a call for admin A leaves the
\* wallet rows and the transaction rows of every other admin unchanged, and
\* any row it writes has adminId A.
C10_PerAdmin ==
    [][ \A p \in Procs :
          (Begins(p) \/ pc'[p] # pc[p]) =>
              /\ \A b \in Admins \ {call'[p].adminId} :
                    /\ WalletsOf(treasuryWallets', b) = WalletsOf(treasuryWallets, b)
                    /\ RowsOf(Log', b) = RowsOf(Log, b)
              /\ Len(treasuryWallets') >= Len(treasuryWallets)
              /\ \A i \in (Len(treasuryWallets) + 1)..Len(treasuryWallets') :
                    treasuryWallets'[i].adminId = call'[p].adminId
              /\ \A i \in (Len(Log) + 1)..Len(Log') :
                    Log'[i].adminId = call'[p].adminId
      ]_vars

\* Both admins hold a changed wallet and a row, and a call for one of them
\* has failed.
C10_Witness ==
    /\ \A a \in Admins :
          /\ WalletsOf(treasuryWallets, a) # <<>>
          /\ WalletsOf(treasuryWallets, a)[1].balance # 0
          /\ RowsOf(Log, a) # <<>>
    /\ \E p \in Procs : pc[p] = "idle" /\ ret[p].kind = "error"


\* The two tables are left as they are by the step at hand.
TablesUnchanged ==
    /\ treasuryWallets' = treasuryWallets
    /\ Log' = Log

\* C11: getTreasuryWalletSummary returns null for an admin without a wallet
\* and creates none; for a wallet it returns balance, totalDeposited,
\* totalUsed, totalEarned and status as stored and netPnL = totalEarned -
\* totalUsed; it changes neither the wallet table nor the log.
C11_Summary ==
    [][ \A p \in Procs :
          (Begins(p) /\ call'[p].op = "summary") =>
              LET had == WalletsOf(treasuryWallets, call'[p].adminId)
                  r == ret'[p].value
              IN /\ TablesUnchanged
                 /\ pc'[p] = "idle"
                 /\ ret'[p].kind = "ok"
                 /\ had = <<>> => r = Null
                 /\ had # <<>> =>
                       \E i \in 1..Len(had) :
                           /\ r.balance = had[i].balance
                           /\ r.totalDeposited = had[i].totalDeposited
                           /\ r.totalUsed = had[i].totalUsed
                           /\ r.totalEarned = had[i].totalEarned
                           /\ r.status = had[i].status
                           /\ r.netPnL = had[i].totalEarned - had[i].totalUsed
      ]_vars

\* A summary has been returned for a wallet whose earnings and usage differ.
C11_Witness ==
    \E p \in Procs :
        /\ pc[p] = "idle" /\ ret[p].kind = "ok" /\ call[p].op = "summary"
        /\ pre[p] # <<>>
        /\ pre[p][1].totalUsed = 1 /\ pre[p][1].totalEarned = 0
        /\ ret[p].value.netPnL = 0 - 1

\* C12: getTreasuryWalletTransactions(adminId, limit) returns rows of that
\* admin only, each stored row at most once, min(limit, number of the admin's
\* rows) of them (limit is 50 when omitted), ordered from newest to oldest
\* createdAt, and no row left out is newer than a returned one; it changes no
\* state.
C12_History ==
    [][ \A p \in Procs :
          (Begins(p) /\ call'[p].op = "transactions") =>
              LET a == call'[p].adminId
                  rows == RowsOf(Log, a)
                  r == ret'[p].value
                  n == IF call'[p].limit <= Len(rows)
                       THEN call'[p].limit ELSE Len(rows)
              IN /\ TablesUnchanged
                 /\ pc'[p] = "idle"
                 /\ ret'[p].kind = "ok"
                 /\ call'[p].limit \in Limits
                 /\ Len(r) = n
                 /\ \A i \in 1..Len(r) :
                       /\ r[i].adminId = a
                       /\ \E j \in 1..Len(rows) : rows[j] = r[i]
                 /\ \A i, j \in 1..Len(r) : r[i].id = r[j].id => i = j
                 /\ \A i \in 1..(Len(r) - 1) : r[i].createdAt >= r[i + 1].createdAt
                 /\ \A j \in 1..Len(rows) :
                       (\A i \in 1..Len(r) : r[i].id # rows[j].id) =>
                           \A i \in 1..Len(r) : rows[j].createdAt <= r[i].createdAt
      ]_vars

\* A query with limit 1 has returned the newer of two rows of an admin that
\* were created at different times.
C12_Witness ==
    \E p \in Procs :
        /\ pc[p] = "idle" /\ ret[p].kind = "ok" /\ call[p].op = "transactions"
        /\ call[p].limit = 1
        /\ Len(RowsOf(Log, call[p].adminId)) = 2
        /\ RowsOf(Log, call[p].adminId)[1].createdAt
               < RowsOf(Log, call[p].adminId)[2].createdAt
        /\ ret[p].value = <<RowsOf(Log, call[p].adminId)[2]>>

\* C13: a debit of more than the wallet's balance throws 'Insufficient
\* Treasury balance' and leaves wallet and log unchanged; a debit of exactly
\* the balance is not refused and, run without overlap, leaves balance 0.
C13_InsufficientBalance ==
    [][ \A p \in Procs :
          LET a == call'[p].adminId
              had == WalletsOf(treasuryWallets, a)
              has == WalletsOf(treasuryWallets', a)
          IN
          /\ (Begins(p) /\ call'[p].op = "debit" /\ had # <<>>) =>
                /\ TablesUnchanged
                /\ (\A i \in 1..Len(had) : call'[p].amount > had[i].balance) =>
                       /\ pc'[p] = "idle"
                       /\ ret'[p] = Threw(InsufficientBalance)
                /\ (\A i \in 1..Len(had) : call'[p].amount <= had[i].balance) =>
                       /\ pc'[p] = "update"
                       /\ ret'[p].kind # "error"
          /\ (CompletesOk(p) /\ call'[p].op = "debit" /\ solo'[p]
                /\ pre'[p] # <<>> /\ pre'[p][1].balance = call'[p].amount) =>
                /\ Len(has) = 1
                /\ has[1].balance = 0
                /\ ret'[p].value = 0
      ]_vars

\* After a debit of the whole balance has left balance 0, a further debit has
\* been refused and has left the wallet as it was.
C13_Witness ==
    \E p \in Procs :
        /\ pc[p] = "idle" /\ ret[p] = Threw(InsufficientBalance)
        /\ call[p].amount = 1
        /\ pre[p] # <<>> /\ pre[p][1].balance = 0 /\ pre[p][1].totalUsed = 1
        /\ post[p] = pre[p]
        /\ Len(Log) = 2 /\ Log[2].type = "debit" /\ Log[2].balanceAfter = 0

\* C14: debit and credit for an admin without a wallet throw 'Treasury wallet
\* not found' and change no state; a wallet row is only ever inserted by a
\* createOrGetTreasuryWallet or depositToTreasuryWallet call.
C14_WalletNotFound ==
    [][ \A p \in Procs :
          /\ (Begins(p) /\ call'[p].op \in {"debit", "credit"}
                /\ WalletsOf(treasuryWallets, call'[p].adminId) = <<>>) =>
                /\ TablesUnchanged
                /\ pc'[p] = "idle"
                /\ ret'[p] = Threw(NotFound)
          /\ ((Begins(p) \/ pc'[p] # pc[p])
                /\ Len(treasuryWallets') # Len(treasuryWallets)) =>
                call'[p].op \in {"create", "deposit"}
      ]_vars

\* A credit for an admin without a wallet has failed while another admin
\* holds a wallet, and no wallet was created for the first.
C14_Witness ==
    \E p \in Procs :
        /\ pc[p] = "idle" /\ ret[p] = Threw(NotFound) /\ call[p].op = "credit"
        /\ WalletsOf(treasuryWallets, call[p].adminId) = <<>>
        /\ treasuryWallets # <<>>


\* Every amount passed for admin a so far was positive: the amounts of a's
\* rows and of a's deposits, debits and credits in progress.
PositiveOnly(a) ==
    /\ \A i \in 1..Len(Log) : Log[i].adminId = a => Log[i].amount > 0
    /\ \A p \in Procs :
          (Active(p) /\ call[p].adminId = a /\ call[p].op \in Mutating) =>
              call[p].amount > 0

\* C15 (as claimed): the treasury is not drawn down twice on the same funds:
\* with positive amounts, once the calls for an admin have completed, the sum
\* of the admin's debit rows is at most the sum of the deposit and credit rows.
C15_NoDoubleDraw ==
    \A a \in Admins :
        (PositiveOnly(a) /\ Quiet(a)) =>
            SumOf(RowsOf(Log, a), {"debit"})
                <= SumOf(RowsOf(Log, a), {"deposit", "credit"})

\* C16: when every amount is positive, a stored balance is never negative,
\* however the calls for the admin overlap.
C16_BalanceNonNegative ==
    \A a \in Admins :
        PositiveOnly(a) =>
            \A i \in 1..Len(WalletsOf(treasuryWallets, a)) :
                WalletsOf(treasuryWallets, a)[i].balance >= 0

\* Two overlapping debits have both drawn on a balance of 1, and the balance
\* stored is 0.
C16_Witness ==
    \E a \in Admins :
        /\ overlapped[a] /\ Quiet(a) /\ PositiveOnly(a)
        /\ SumOf(RowsOf(Log, a), {"debit"}) = 2
        /\ SumOf(RowsOf(Log, a), {"deposit", "credit"}) = 1
        /\ WalletsOf(treasuryWallets, a)[1].balance = 0

\* C17: when the calls for an admin have not overlapped and none is in
\* progress, the wallet satisfies balance = totalDeposited + totalEarned -
\* totalUsed, whatever the amounts and whether the calls succeeded or failed.
C17_Conservation ==
    \A a \in Admins :
        (~overlapped[a] /\ Quiet(a)) =>
            \A i \in 1..Len(WalletsOf(treasuryWallets, a)) :
                LET w == WalletsOf(treasuryWallets, a)[i]
                IN w.balance = w.totalDeposited + w.totalEarned - w.totalUsed

\* A deposit, a credit of a negative amount and a debit have run one after
\* another and moved all three totals.
C17_Witness ==
    \E a \in Admins :
        /\ ~overlapped[a] /\ Quiet(a)
        /\ Len(WalletsOf(treasuryWallets, a)) = 1
        /\ WalletsOf(treasuryWallets, a)[1].totalDeposited = 1
        /\ WalletsOf(treasuryWallets, a)[1].totalEarned = 0 - 1
        /\ WalletsOf(treasuryWallets, a)[1].totalUsed = 0 - 1
        /\ WalletsOf(treasuryWallets, a)[1].balance = 1


\* C18 (as claimed): a payment is credited once: no admin has two deposit
\* rows with the same paystackReference.
C18_DepositIdempotent ==
    \A i, j \in 1..Len(Log) :
        (/\ Log[i].type = "deposit" /\ Log[j].type = "deposit"
         /\ Log[i].adminId = Log[j].adminId
         /\ Log[i].reference = Log[j].reference) => i = j


\* The minimum deposit the dialog states ('Minimum: 1,000', min="1000"), as
\* the least decimal that parses to a number of at least 1000:
\* 1000 - 2^-44, half way from the double before 1000 to 1000.
LeastMinDeposit ==
    [mant |-> Chars("99999999999999994315658113919198513031005859375"),
     exp |-> 0 - 44]

\* amount >= 1000 (false for NaN)
AtLeastMinDeposit(amount) ==
    /\ amount.kind # "nan"
    /\ ~amount.negative
    /\ \/ amount.kind = "infinity"
       \/ amount.mant # <<>> /\ ~Less(amount, LeastMinDeposit)

\* C19 (as claimed): the panel enforces the minimum deposit: while the entry
\* does not parse to a number of at least 1000 (empty, non-numeric, zero,
\* negative or below the minimum), no step of the panel sends a
\* deposit-initiation request or turns isProcessing on.
C19_MinimumDeposit ==
    [][ ~AtLeastMinDeposit(parseFloat(depositAmount)) =>
            /\ requests' = requests
            /\ isProcessing' => isProcessing ]_vars

====
